---- MODULE Spec2Model ----
(***************************************************************************)
(* Actor isolation values (swift::ActorIsolation) and isolation crossings  *)
(* (swift::ApplyIsolationCrossing) of include/swift/AST/ActorIsolation.h.  *)
(*                                                                         *)
(* An ActorIsolation is a record of the five stored fields.  The three     *)
(* members of the anonymous union (actorInstance, globalActor, pointer)    *)
(* share one word of storage, so the model keeps a single field `pointer`  *)
(* holding the bits last written: NullPointer, a Type, or the member of    *)
(* the PointerUnion that was stored.                                       *)
(***************************************************************************)
EXTENDS Integers, Sequences, FiniteSets, TLC

----------------------------------------------------------------------------
(* Bounds of the model: how many distinct types and declarations exist.    *)

MaxTypes == 2
MaxNominals == 1
MaxVars == 1

----------------------------------------------------------------------------
(* enum Kind : uint8_t                                                     *)

Unspecified == 0
ActorInstance == 1
Nonisolated == 2
NonisolatedUnsafe == 3
GlobalActor == 4

Kinds == {Unspecified, ActorInstance, Nonisolated, NonisolatedUnsafe, GlobalActor}

(* Widths of the bit-fields `kind : 3` and `parameterIndex : 27`.          *)
KindBits == 3
ParameterIndexBits == 27

(* Largest value the parameterIndex field can hold.                        *)
MaxParameterIndex == 2^ParameterIndexBits - 1

----------------------------------------------------------------------------
(* Payloads.                                                               *)

NullPointer == <<"nullptr", 0>>

(* Type(): the null type, whose only word is a null pointer.               *)
NullType == NullPointer

Types == {<<"Type", n>> : n \in 1..MaxTypes}
NominalTypeDecls == {<<"NominalTypeDecl", n>> : n \in 1..MaxNominals}
VarDecls == {<<"VarDecl", n>> : n \in 1..MaxVars}

(* Declared parameter positions passed to forActorInstanceParameter: the   *)
(* small positions, and the largest positions the field can still encode.  *)
ParamPositions == {0, 1, 5, MaxParameterIndex - 1, MaxParameterIndex}

(* Texts handed to forSILString: the keywords and some that are not.       *)
SILStrings ==
  {"unspecified", "actor_instance", "nonisolated", "nonisolated_unsafe",
   "global_actor", "global_actor_unsafe",
   "bogus", "", "Global_Actor"}

----------------------------------------------------------------------------
(* Constructors.                                                           *)

(* Storing into an n-bit unsigned bit-field keeps the low n bits.          *)
BitField(value, bits) == value % (2^bits)

(* ActorIsolation(Kind, NominalTypeDecl* / VarDecl* / Expr*, unsigned):    *)
(* declared here, defined out of line.                                     *)
ActorIsolation_Actor(kind, actor, parameterIndex) ==
  [kind |-> BitField(kind, KindBits),
   pointer |-> actor,
   isolatedByPreconcurrency |-> FALSE,
   silParsed |-> FALSE,
   parameterIndex |-> BitField(parameterIndex, ParameterIndexBits)]

(* ActorIsolation(Kind kind, Type globalActor)                             *)
ActorIsolation_Type(kind, globalActor) ==
  [kind |-> BitField(kind, KindBits),
   pointer |-> globalActor,
   isolatedByPreconcurrency |-> FALSE,
   silParsed |-> FALSE,
   parameterIndex |-> 0]

(* explicit ActorIsolation(Kind kind = Unspecified, bool isSILParsed = false) *)
ActorIsolation_BadIndex(kind, isSILParsed) ==
  [kind |-> BitField(kind, KindBits),
   pointer |-> NullPointer,
   isolatedByPreconcurrency |-> FALSE,
   silParsed |-> isSILParsed,
   parameterIndex |-> 1]

ActorIsolation(kind, isSILParsed) ==
  [kind |-> BitField(kind, KindBits),
   pointer |-> NullPointer,
   isolatedByPreconcurrency |-> FALSE,
   silParsed |-> isSILParsed,
   parameterIndex |-> 0]

----------------------------------------------------------------------------
(* Factories.                                                              *)

(* nullptr converts to Type, not to bool, so the (Kind, Type) constructor  *)
(* is the one selected.                                                    *)
forUnspecified == ActorIsolation_Type(Unspecified, NullType)

forNonisolated(unsafe) ==
  ActorIsolation_Type(IF unsafe THEN NonisolatedUnsafe ELSE Nonisolated, NullType)

(* The NominalTypeDecl* and VarDecl* overloads have the same body.  The    *)
(* sum parameterIndex + 1 is computed in `unsigned` and then stored in the *)
(* 27-bit field; since 2^27 divides 2^32 the stored value is               *)
(* (parameterIndex + 1) mod 2^27 either way.                               *)
forActorInstanceParameter(actor, parameterIndex) ==
  ActorIsolation_Actor(ActorInstance, actor, parameterIndex + 1)

forActorInstanceCapture(capturedActor) ==
  ActorIsolation_Actor(ActorInstance, capturedActor, 0)

forGlobalActor(globalActor) == ActorIsolation_Type(GlobalActor, globalActor)

(* std::optional: absent, or present with a value.                         *)
nullopt == [present |-> FALSE]
Some(value) == [present |-> TRUE, value |-> value]

----------------------------------------------------------------------------
(* Queries.                                                                *)

getKind(state) == state.kind

isUnspecified(state) == state.kind = Unspecified

isNonisolated(state) ==
  (state.kind = Nonisolated) \/ (state.kind = NonisolatedUnsafe)

isSILParsed(state) == state.silParsed

isActorIsolated_NoGlobal(state) ==
  CASE getKind(state) = ActorInstance -> TRUE
    [] getKind(state) = GlobalActor -> FALSE
    [] getKind(state) \in {Unspecified, Nonisolated, NonisolatedUnsafe} -> FALSE

isActorIsolated(state) ==
  CASE getKind(state) \in {ActorInstance, GlobalActor} -> TRUE
    [] getKind(state) \in {Unspecified, Nonisolated, NonisolatedUnsafe} -> FALSE

isGlobalActor(state) == getKind(state) = GlobalActor

preconcurrency(state) == state.isolatedByPreconcurrency

(* A call either returns a value or stops the program in a failed assert   *)
(* (assert as written, that is, in a build that keeps assertions).         *)
Returned(value) == [status |-> "ok", value |-> value]
AssertionFailure == [status |-> "abort"]

getActorInstanceParameter_NoAssert(state) == Returned(state.parameterIndex)

getActorInstanceParameter(state) ==
  IF getKind(state) # ActorInstance
    THEN AssertionFailure
    ELSE Returned(state.parameterIndex)

getGlobalActor_Inverted(state) ==
  IF ~isGlobalActor(state)
    THEN AssertionFailure
    ELSE IF ~state.silParsed
           THEN Returned(NullType)
           ELSE Returned(state.pointer)

getGlobalActor(state) ==
  IF ~isGlobalActor(state)
    THEN AssertionFailure
    ELSE IF state.silParsed
           THEN Returned(NullType)
           ELSE Returned(state.pointer)

withPreconcurrency_DropsIndex(state, value) ==
  [state EXCEPT !.isolatedByPreconcurrency = value, !.parameterIndex = 0]

withPreconcurrency(state, value) ==
  [state EXCEPT !.isolatedByPreconcurrency = value]

----------------------------------------------------------------------------
(* Algebra: equality, hashing, printing, decoding.                         *)

(* ActorIsolation::isEqual is declared here and defined out of line:       *)
(* structural over kind and payload; the preconcurrency and silParsed      *)
(* flags and the parameter index take no part.                             *)
isEqual(lhs, rhs) ==
  /\ getKind(lhs) = getKind(rhs)
  /\ (getKind(lhs) \in {ActorInstance, GlobalActor} => lhs.pointer = rhs.pointer)

(* llvm::hash_combine is a deterministic function of the sequence of       *)
(* values it is given; the model keeps that sequence as the hash code.     *)
hash_combine(kind, pointer, flag, index) == <<kind, pointer, flag, index>>

hash_value(state) ==
  hash_combine(state.kind, state.pointer, state.isolatedByPreconcurrency,
               state.parameterIndex)

(* What print writes to the stream.                                        *)
print_LegacyAlias(state) ==
  CASE getKind(state) = Unspecified -> "unspecified"
    [] getKind(state) = ActorInstance -> "actor_instance"
    [] getKind(state) = Nonisolated -> "nonisolated"
    [] getKind(state) = NonisolatedUnsafe -> "nonisolated_unsafe"
    [] getKind(state) = GlobalActor -> "global_actor_unsafe"

print(state) ==
  CASE getKind(state) = Unspecified -> "unspecified"
    [] getKind(state) = ActorInstance -> "actor_instance"
    [] getKind(state) = Nonisolated -> "nonisolated"
    [] getKind(state) = NonisolatedUnsafe -> "nonisolated_unsafe"
    [] getKind(state) = GlobalActor -> "global_actor"

(* The StringSwitch of forSILString: each Case value is an                 *)
(* optional<ActorIsolation> built from the kind by the public constructor  *)
(* and converted to optional<Kind> through operator Kind().                *)
SILStringSwitch(string) ==
  CASE string = "unspecified" -> Some(getKind(ActorIsolation(Unspecified, FALSE)))
    [] string = "actor_instance" -> Some(getKind(ActorIsolation(ActorInstance, FALSE)))
    [] string = "nonisolated" -> Some(getKind(ActorIsolation(Nonisolated, FALSE)))
    [] string = "nonisolated_unsafe" ->
         Some(getKind(ActorIsolation(NonisolatedUnsafe, FALSE)))
    [] string = "global_actor" -> Some(getKind(ActorIsolation(GlobalActor, FALSE)))
    [] string = "global_actor_unsafe" ->
         Some(getKind(ActorIsolation(GlobalActor, FALSE)))
    [] OTHER -> nullopt

forSILString_NoAlias(string) ==
  LET kind == SILStringSwitch(string)
  IN  IF ~kind.present \/ string = "global_actor_unsafe"
        THEN nullopt
        ELSE Some(ActorIsolation(kind.value, TRUE))

forSILString(string) ==
  LET kind == SILStringSwitch(string)
  IN  IF ~kind.present
        THEN nullopt
        ELSE Some(ActorIsolation(kind.value, TRUE))

----------------------------------------------------------------------------
(* struct ApplyIsolationCrossing                                           *)

ApplyIsolationCrossing_Default ==
  [CallerIsolation |-> forUnspecified, CalleeIsolation |-> forUnspecified]

ApplyIsolationCrossing(CallerIsolation, CalleeIsolation) ==
  [CallerIsolation |-> CallerIsolation, CalleeIsolation |-> CalleeIsolation]

exitsIsolation(crossing) == ~isActorIsolated(crossing.CalleeIsolation)

getDiagnoseIsolation_Callee(crossing) == crossing.CalleeIsolation

getDiagnoseIsolation(crossing) ==
  IF exitsIsolation(crossing)
    THEN crossing.CallerIsolation
    ELSE crossing.CalleeIsolation

getCallerIsolation(crossing) == crossing.CallerIsolation
getCalleeIsolation(crossing) == crossing.CalleeIsolation

----------------------------------------------------------------------------
(* The program: a client holding isolation values and one crossing.        *)
(*                                                                         *)
(*   regs      two variables of type ActorIsolation, "a" and "b"           *)
(*   origin    for each of them, the construction its value descends from  *)
(*             (through withPreconcurrency copies): the factory, its       *)
(*             arguments and the value the factory returned                *)
(*   crossing  a variable of type ApplyIsolationCrossing                   *)
(*   ret       the latest call: its name, operands and outcome; status is  *)
(*             "abort" once an assertion has failed, which ends the run    *)

VARIABLES regs, origin, crossing, ret

vars == <<regs, origin, crossing, ret>>

Regs == {"a", "b"}

Built(factory, args, value) == [factory |-> factory, args |-> args, value |-> value]

Running == ret.status # "abort"

Init ==
  /\ regs = [r \in Regs |-> ActorIsolation(Unspecified, FALSE)]
  /\ origin = [r \in Regs |->
                 Built("ActorIsolation", <<Unspecified, FALSE>>,
                       ActorIsolation(Unspecified, FALSE))]
  /\ crossing = ApplyIsolationCrossing_Default
  /\ ret = [op |-> "init", status |-> "ok"]

(* r = factory(args): the value is stored and remembered as r's origin.    *)
Store(r, factory, args, value) ==
  /\ regs' = [regs EXCEPT ![r] = value]
  /\ origin' = [origin EXCEPT ![r] = Built(factory, args, value)]
  /\ ret' = [op |-> factory, status |-> "ok", recv |-> r, args |-> args]
  /\ UNCHANGED crossing

Construct(r, kind, parsed) ==
  /\ Running
  /\ Store(r, "ActorIsolation", <<kind, parsed>>, ActorIsolation(kind, parsed))

ForUnspecified(r) ==
  /\ Running
  /\ Store(r, "forUnspecified", <<>>, forUnspecified)

ForNonisolated(r, unsafe) ==
  /\ Running
  /\ Store(r, "forNonisolated", <<unsafe>>, forNonisolated(unsafe))

ForActorInstanceParameter(r, actor, parameterIndex) ==
  /\ Running
  /\ Store(r, "forActorInstanceParameter", <<actor, parameterIndex>>,
           forActorInstanceParameter(actor, parameterIndex))

ForActorInstanceCapture(r, capturedActor) ==
  /\ Running
  /\ Store(r, "forActorInstanceCapture", <<capturedActor>>,
           forActorInstanceCapture(capturedActor))

ForGlobalActor(r, globalActor) ==
  /\ Running
  /\ Store(r, "forGlobalActor", <<globalActor>>, forGlobalActor(globalActor))

(* if (auto iso = forSILString(string)) r = *iso;                          *)
ForSILString(r, string) ==
  /\ Running
  /\ LET result == forSILString(string)
     IN  /\ ret' = [op |-> "forSILString", status |-> "ok", recv |-> r,
                    args |-> <<string>>, value |-> result]
         /\ IF result.present
              THEN /\ regs' = [regs EXCEPT ![r] = result.value]
                   /\ origin' = [origin EXCEPT
                                   ![r] = Built("forSILString", <<string>>,
                                                result.value)]
              ELSE UNCHANGED <<regs, origin>>
  /\ UNCHANGED crossing

(* dst = src.withPreconcurrency(value);                                    *)
WithPreconcurrency(src, dst, value) ==
  /\ Running
  /\ regs' = [regs EXCEPT ![dst] = withPreconcurrency(regs[src], value)]
  /\ origin' = [origin EXCEPT ![dst] = origin[src]]
  /\ ret' = [op |-> "withPreconcurrency", status |-> "ok", recv |-> src,
             dst |-> dst, args |-> <<value>>, before |-> regs[src]]
  /\ UNCHANGED crossing

(* A const query on r that cannot fail.                                    *)
Query(r, op, value) ==
  /\ Running
  /\ ret' = [op |-> op, status |-> "ok", recv |-> r, value |-> value]
  /\ UNCHANGED <<regs, origin, crossing>>

(* A const query on r that asserts its precondition.                       *)
Checked(r, op, outcome) ==
  /\ Running
  /\ ret' = IF outcome.status = "ok"
              THEN [op |-> op, status |-> "ok", recv |-> r, value |-> outcome.value]
              ELSE [op |-> op, status |-> "abort", recv |-> r]
  /\ UNCHANGED <<regs, origin, crossing>>

GetKind(r) == Query(r, "getKind", getKind(regs[r]))
IsUnspecified(r) == Query(r, "isUnspecified", isUnspecified(regs[r]))
IsNonisolated(r) == Query(r, "isNonisolated", isNonisolated(regs[r]))
IsActorIsolated(r) == Query(r, "isActorIsolated", isActorIsolated(regs[r]))
IsGlobalActor(r) == Query(r, "isGlobalActor", isGlobalActor(regs[r]))
IsSILParsed(r) == Query(r, "isSILParsed", isSILParsed(regs[r]))
Preconcurrency(r) == Query(r, "preconcurrency", preconcurrency(regs[r]))
PrintTo(r) == Query(r, "print", print(regs[r]))

GetActorInstanceParameter(r) ==
  Checked(r, "getActorInstanceParameter", getActorInstanceParameter(regs[r]))

GetGlobalActor(r) == Checked(r, "getGlobalActor", getGlobalActor(regs[r]))

(* A hashed container looking b up against a: both hash codes and ==.      *)
Compare ==
  /\ Running
  /\ ret' = [op |-> "compare", status |-> "ok",
             equal |-> isEqual(regs["a"], regs["b"]),
             hashA |-> hash_value(regs["a"]),
             hashB |-> hash_value(regs["b"])]
  /\ UNCHANGED <<regs, origin, crossing>>

(* crossing = ApplyIsolationCrossing(): back to "not yet analyzed".        *)
CrossingDefault ==
  /\ Running
  /\ crossing' = ApplyIsolationCrossing_Default
  /\ ret' = [op |-> "ApplyIsolationCrossing()", status |-> "ok"]
  /\ UNCHANGED <<regs, origin>>

(* crossing = ApplyIsolationCrossing(caller, callee): the analysis of a    *)
(* call site fills in a crossing that is still the default one.            *)
CrossingOf(caller, callee) ==
  /\ Running
  /\ crossing = ApplyIsolationCrossing_Default
  /\ crossing' = ApplyIsolationCrossing(caller, callee)
  /\ ret' = [op |-> "ApplyIsolationCrossing", status |-> "ok"]
  /\ UNCHANGED <<regs, origin>>

(* A const query on the crossing; `before` is the crossing it was asked of. *)
CrossingQuery(op, value) ==
  /\ Running
  /\ ret' = [op |-> op, status |-> "ok", value |-> value, before |-> crossing]
  /\ UNCHANGED <<regs, origin, crossing>>

ExitsIsolation == CrossingQuery("exitsIsolation", exitsIsolation(crossing))

GetDiagnoseIsolation ==
  CrossingQuery("getDiagnoseIsolation", getDiagnoseIsolation(crossing))

GetCallerIsolation ==
  CrossingQuery("getCallerIsolation", getCallerIsolation(crossing))

GetCalleeIsolation ==
  CrossingQuery("getCalleeIsolation", getCalleeIsolation(crossing))

----------------------------------------------------------------------------
(* The values a client can hold: what the public constructor, a factory    *)
(* or forSILString returns, and the withPreconcurrency copies of those.    *)

ConstructedValues ==
  {ActorIsolation(kind, parsed) : kind \in Kinds, parsed \in BOOLEAN}
  \cup {forUnspecified}
  \cup {forNonisolated(unsafe) : unsafe \in BOOLEAN}
  \cup {forActorInstanceParameter(actor, parameterIndex) :
          actor \in NominalTypeDecls \cup VarDecls,
          parameterIndex \in ParamPositions}
  \cup {forActorInstanceCapture(capturedActor) : capturedActor \in VarDecls}
  \cup {forGlobalActor(globalActor) : globalActor \in Types}
  \cup {forSILString(string).value :
          string \in {t \in SILStrings : forSILString(t).present}}

IsolationValues ==
  {withPreconcurrency(state, value) :
     state \in ConstructedValues, value \in BOOLEAN}

----------------------------------------------------------------------------
(* Spec: a client that builds values into "a", derives copies with         *)
(* withPreconcurrency and queries both.                                    *)

Next ==
  \/ \E kind \in Kinds, parsed \in BOOLEAN : Construct("a", kind, parsed)
  \/ ForUnspecified("a")
  \/ \E unsafe \in BOOLEAN : ForNonisolated("a", unsafe)
  \/ \E actor \in NominalTypeDecls \cup VarDecls,
        parameterIndex \in ParamPositions :
        ForActorInstanceParameter("a", actor, parameterIndex)
  \/ \E capturedActor \in VarDecls : ForActorInstanceCapture("a", capturedActor)
  \/ \E globalActor \in Types : ForGlobalActor("a", globalActor)
  \/ \E string \in SILStrings : ForSILString("a", string)
  \/ \E src \in Regs, dst \in Regs, value \in BOOLEAN :
        WithPreconcurrency(src, dst, value)
  \/ \E r \in Regs : GetKind(r)
  \/ \E r \in Regs : IsUnspecified(r)
  \/ \E r \in Regs : IsNonisolated(r)
  \/ \E r \in Regs : IsActorIsolated(r)
  \/ \E r \in Regs : IsGlobalActor(r)
  \/ \E r \in Regs : IsSILParsed(r)
  \/ \E r \in Regs : Preconcurrency(r)
  \/ \E r \in Regs : PrintTo(r)
  \/ \E r \in Regs : GetActorInstanceParameter(r)
  \/ \E r \in Regs : GetGlobalActor(r)
  \/ Compare

Spec == Init /\ [][Next]_vars

(* CrossingSpec: a client that records call sites and queries them.        *)

CrossingNext ==
  \/ CrossingDefault
  \/ \E caller \in IsolationValues, callee \in IsolationValues :
        CrossingOf(caller, callee)
  \/ ExitsIsolation
  \/ GetDiagnoseIsolation
  \/ GetCallerIsolation
  \/ GetCalleeIsolation

CrossingSpec == Init /\ [][CrossingNext]_vars

----------------------------------------------------------------------------
(* Properties.                                                             *)

(* The value the latest call was made on.                                  *)
Receiver == regs[ret.recv]

Canonical ==
  {"unspecified", "actor_instance", "nonisolated", "nonisolated_unsafe",
   "global_actor"}

(* The kind each keyword of the textual encoding stands for.               *)
KeywordKind(string) ==
  CASE string = "unspecified" -> Unspecified
    [] string = "actor_instance" -> ActorInstance
    [] string = "nonisolated" -> Nonisolated
    [] string = "nonisolated_unsafe" -> NonisolatedUnsafe
    [] string \in {"global_actor", "global_actor_unsafe"} -> GlobalActor

(* C1: equal values hash equally: whenever a and b compare equal (same     *)
(* kind and payload) their hash codes are the same.                        *)
C1_EqualValuesHashEqually ==
  (ret.op = "compare" /\ ret.equal) => ret.hashA = ret.hashB

(* C2: forSILString never fails; it returns a present value exactly for    *)
(* the six keywords, of the kind the keyword stands for and with           *)
(* isSILParsed() true, and absent for every other string.                  *)
C2_ForSILStringTotal ==
  ret.op = "forSILString" =>
    /\ ret.status = "ok"
    /\ ret.value.present <=>
         ret.args[1] \in Canonical \cup {"global_actor_unsafe"}
    /\ ret.value.present =>
         /\ getKind(ret.value.value) = KeywordKind(ret.args[1])
         /\ isSILParsed(ret.value.value)
         /\ Receiver = ret.value.value

C2_Witness ==
  /\ ret.op = "forSILString"
  /\ ret.args[1] = "global_actor_unsafe"
  /\ ret.value.present
  /\ getKind(regs["a"]) = GlobalActor
  /\ isSILParsed(regs["a"])

(* C3: exitsIsolation() is true iff the callee is neither ActorInstance    *)
(* nor GlobalActor; getDiagnoseIsolation() is the callee when the callee   *)
(* is isolated and the caller otherwise; the default crossing is           *)
(* (Unspecified, Unspecified); the queries leave the crossing as it was.   *)
C3_CrossingQueries ==
  /\ ret.op = "ApplyIsolationCrossing()" =>
       /\ getKind(crossing.CallerIsolation) = Unspecified
       /\ getKind(crossing.CalleeIsolation) = Unspecified
  /\ ret.op = "exitsIsolation" =>
       /\ ret.value = (getKind(crossing.CalleeIsolation)
                         \notin {ActorInstance, GlobalActor})
       /\ crossing = ret.before
  /\ ret.op = "getDiagnoseIsolation" =>
       /\ ret.value = IF getKind(crossing.CalleeIsolation)
                            \in {ActorInstance, GlobalActor}
                        THEN crossing.CalleeIsolation
                        ELSE crossing.CallerIsolation
       /\ crossing = ret.before
  /\ (ret.op = "exitsIsolation" /\ crossing = ApplyIsolationCrossing_Default)
       => ret.value = TRUE
  /\ (ret.op = "getDiagnoseIsolation"
        /\ crossing = ApplyIsolationCrossing_Default)
       => getKind(ret.value) = Unspecified

C3_Witness ==
  /\ ret.op = "getDiagnoseIsolation"
  /\ getKind(crossing.CallerIsolation) = ActorInstance
  /\ crossing.CallerIsolation.parameterIndex = 6
  /\ getKind(crossing.CalleeIsolation) = Nonisolated
  /\ ret.value = crossing.CallerIsolation

(* C4: isActorIsolated() is true exactly for ActorInstance and             *)
(* GlobalActor, isNonisolated() exactly for Nonisolated and                *)
(* NonisolatedUnsafe, isUnspecified() exactly for Unspecified; never two   *)
(* of them at once, and two values of one kind always answer alike.        *)
C4_KindPredicates ==
  /\ ret.op = "isActorIsolated" =>
       ret.value = (getKind(Receiver) \in {ActorInstance, GlobalActor})
  /\ ret.op = "isNonisolated" =>
       ret.value = (getKind(Receiver) \in {Nonisolated, NonisolatedUnsafe})
  /\ ret.op = "isUnspecified" =>
       ret.value = (getKind(Receiver) = Unspecified)
  /\ \A r \in Regs :
       /\ ~(isActorIsolated(regs[r]) /\ isNonisolated(regs[r]))
       /\ (~isActorIsolated(regs[r]) /\ ~isNonisolated(regs[r]))
            <=> isUnspecified(regs[r])
  /\ getKind(regs["a"]) = getKind(regs["b"]) =>
       /\ isActorIsolated(regs["a"]) = isActorIsolated(regs["b"])
       /\ isNonisolated(regs["a"]) = isNonisolated(regs["b"])

C4_Witness ==
  /\ ret.op = "isActorIsolated"
  /\ getKind(Receiver) = GlobalActor
  /\ isSILParsed(Receiver)
  /\ preconcurrency(Receiver)
  /\ ret.value = TRUE

(* C5: print writes the canonical keyword of the kind, never the legacy    *)
(* alias, and decoding what was written gives a value of the same kind; a  *)
(* value decoded from "global_actor_unsafe" prints as "global_actor".      *)
C5_PrintDecodeRoundTrip ==
  ret.op = "print" =>
    /\ ret.value \in Canonical
    /\ KeywordKind(ret.value) = getKind(Receiver)
    /\ forSILString(ret.value).present
    /\ getKind(forSILString(ret.value).value) = getKind(Receiver)
    /\ (origin[ret.recv].factory = "forSILString"
          /\ origin[ret.recv].args[1] = "global_actor_unsafe") =>
         ret.value = "global_actor"

C5_Witness ==
  /\ ret.op = "print"
  /\ origin[ret.recv].factory = "forSILString"
  /\ origin[ret.recv].args[1] = "global_actor_unsafe"
  /\ ret.value = "global_actor"

(* C6: getActorInstanceParameter() is 0 for a value built by               *)
(* forActorInstanceCapture and i + 1, never 0, for a value built by        *)
(* forActorInstanceParameter from the declared position i.                 *)
C6_ParameterEncoding ==
  (ret.op = "getActorInstanceParameter" /\ ret.status = "ok") =>
    /\ origin[ret.recv].factory = "forActorInstanceCapture" => ret.value = 0
    /\ origin[ret.recv].factory = "forActorInstanceParameter" =>
         /\ ret.value = origin[ret.recv].args[2] + 1
         /\ ret.value # 0

(* C7: getGlobalActor() on a GlobalActor value returns without a failed    *)
(* assertion; it returns the null Type when the value is SIL-parsed, and   *)
(* T when the value descends from forGlobalActor(T).                       *)
C7_GlobalActorPayload ==
  (ret.op = "getGlobalActor" /\ isGlobalActor(Receiver)) =>
    /\ ret.status = "ok"
    /\ isSILParsed(Receiver) => ret.value = NullType
    /\ origin[ret.recv].factory = "forGlobalActor" =>
         ret.value = origin[ret.recv].args[1]

C7_Witness ==
  /\ ret.op = "getGlobalActor"
  /\ isGlobalActor(Receiver)
  /\ isSILParsed(Receiver)
  /\ preconcurrency(Receiver)
  /\ ret.status = "ok"
  /\ ret.value = NullType

(* C8: getGlobalActor() ends in the failed assertion iff the kind is not   *)
(* GlobalActor, and getActorInstanceParameter() iff it is not              *)
(* ActorInstance; otherwise they return.                                   *)
C8_AccessorPreconditions ==
  /\ ret.op = "getGlobalActor" =>
       (ret.status = "abort") <=> (getKind(Receiver) # GlobalActor)
  /\ ret.op = "getActorInstanceParameter" =>
       (ret.status = "abort") <=> (getKind(Receiver) # ActorInstance)
  /\ ret.status \in {"ok", "abort"}

C8_Witness ==
  /\ ret.op = "getActorInstanceParameter"
  /\ getKind(Receiver) = GlobalActor
  /\ ret.status = "abort"

(* C9: withPreconcurrency(b) returns the receiver's fields with            *)
(* preconcurrency() = b and leaves the receiver alone; so every value      *)
(* agrees with the constructed value it descends from in everything but    *)
(* the flag, is equal to it, and is that very value when its flag is off.  *)
C9_WithPreconcurrencyFrame ==
  /\ ret.op = "withPreconcurrency" =>
       /\ preconcurrency(regs[ret.dst]) = ret.args[1]
       /\ regs[ret.dst].kind = ret.before.kind
       /\ regs[ret.dst].pointer = ret.before.pointer
       /\ regs[ret.dst].parameterIndex = ret.before.parameterIndex
       /\ regs[ret.dst].silParsed = ret.before.silParsed
       /\ ret.dst # ret.recv => Receiver = ret.before
  /\ \A r \in Regs :
       /\ regs[r].kind = origin[r].value.kind
       /\ regs[r].pointer = origin[r].value.pointer
       /\ regs[r].parameterIndex = origin[r].value.parameterIndex
       /\ regs[r].silParsed = origin[r].value.silParsed
       /\ isEqual(regs[r], origin[r].value)
       /\ ~preconcurrency(regs[r]) => regs[r] = origin[r].value

C9_Witness ==
  /\ ret.op = "withPreconcurrency"
  /\ ret.args[1] = FALSE
  /\ preconcurrency(ret.before)
  /\ ret.dst # ret.recv
  /\ getKind(ret.before) = ActorInstance
  /\ ret.before.parameterIndex = 6
  /\ regs[ret.dst] = origin[ret.dst].value

(* C10: parameterIndex is non-zero only in an ActorInstance value that is  *)
(* not SIL-parsed, and a value as constructed or decoded has               *)
(* preconcurrency() false.                                                 *)
C10_ParameterIndexUnused ==
  /\ \A r \in Regs :
       /\ regs[r].parameterIndex # 0 =>
            (getKind(regs[r]) = ActorInstance /\ ~isSILParsed(regs[r]))
       /\ ~preconcurrency(origin[r].value)
  /\ ret.op \in {"ActorIsolation", "forUnspecified", "forNonisolated",
                 "forActorInstanceParameter", "forActorInstanceCapture",
                 "forGlobalActor"} =>
       ~preconcurrency(Receiver)
  /\ (ret.op = "forSILString" /\ ret.value.present) =>
       (~preconcurrency(Receiver) /\ Receiver.parameterIndex = 0)

C10_Witness ==
  /\ ret.op = "forSILString"
  /\ ret.value.present
  /\ getKind(regs["a"]) = ActorInstance
  /\ regs["a"].parameterIndex = 0
  /\ getKind(regs["b"]) = ActorInstance
  /\ regs["b"].parameterIndex = 6
  /\ preconcurrency(regs["b"])

====
